---- MODULE Spec2Model ----
(***************************************************************************)
(* A model of two pieces of smolnima:                                      *)
(*   - GeminiModel (src/agent/models/gemini.py): the retry loop of         *)
(*     __call__ around the remote generate_content call, and               *)
(*     _messages_to_prompt;                                                *)
(*   - StreamlitCodeAgent.extract_useful_output (src/streamlit_agent.py):  *)
(*     the line classifier that segments a captured transcript.            *)
(* Python strings are TLA+ strings; the string methods the code uses       *)
(* (in, lower, strip, startswith, replace, split, join, re.search) are     *)
(* operators over them, computed character by character.  Python floats    *)
(* (durations) are exact rationals [num, den].                             *)
(***************************************************************************)
EXTENDS Integers, Sequences, FiniteSets, TLC

VARIABLES
    max_retries,      \* GeminiModel.max_retries
    retry_delay,      \* GeminiModel.retry_delay, a rational
    messages,         \* the argument of the current __call__
    prompt,           \* the local prompt of __call__
    pc,               \* where __call__ stands: "ready", "attempt", "sleep", "done"
    attempt,          \* the loop variable of the retry loop
    delay,            \* the argument of the time.sleep in progress
    log,              \* the remote calls and sleeps of this __call__, in order
    result,           \* how __call__ ended: returned ChatMessage or raised exception
    fmsgs,            \* the argument of a direct _messages_to_prompt call
    fprompt,          \* what that call returned
    fpc,              \* "input" before the call, "done" after it
    text,             \* the argument of extract_useful_output
    lines,            \* text.split('\n')
    idx,              \* how many lines the for loop has consumed
    sections,         \* the local sections
    current_section,  \* the local current_section (None is NoSection)
    in_code_block,    \* the local in_code_block
    xpc,              \* "input", "loop", "done"
    atext,            \* the argument of the first clean_ansi_codes call
    aout,             \* what clean_ansi_codes returned, each call fed the last result
    store,            \* rag_tool._DOCUMENT_STORE
    disk,             \* the PDF files on disk
    rlast,            \* the last rag_tool call: its arguments and what it returned
    fresh,            \* the directories loaded since they last changed
    chat,             \* st.session_state.messages of the web UI
    shown,            \* what the chat column displayed, in order
    upc,              \* "idle", or "processing" while a prompt awaits its answer
    ulast,            \* how the last agent run of the chat column ended
    sys_stdout,       \* sys.stdout
    sys_stderr,       \* sys.stderr
    old_stdout,       \* the local old_stdout of StreamlitCodeAgent.run
    old_stderr,       \* the local old_stderr
    captured,         \* captured_output.getvalue() of the run
    agent_output,     \* st.session_state.agent_output
    kpc,              \* "idle", "running", "returned", "raised", "interrupted"
    runs,             \* how many runs were started
    current_experiment_dir,  \* ExperimentTracker.current_experiment_dir, "" for None
    files,            \* the files under base_dir: path -> content
    clock,            \* datetime.now(), in seconds
    tlast,            \* the last ExperimentTracker call and what it met
    tcalls,           \* how many ExperimentTracker calls were made
    cpc,              \* cli: "start", "prompt", "running", "ended", "exited"
    api_key,          \* config.api_key of the cli
    user_input,       \* the local user_input of run_interactive
    clog,             \* what the cli session did, in order
    rc                \* what main returned, -1 while it has not returned

gvars == <<max_retries, retry_delay, messages, prompt, pc, attempt, delay, log, result>>
fvars == <<fmsgs, fprompt, fpc>>
xvars == <<text, lines, idx, sections, current_section, in_code_block, xpc>>
avars == <<atext, aout>>
rvars == <<store, disk, rlast, fresh>>
uvars == <<chat, shown, upc, ulast>>
cvars == <<cpc, api_key, user_input, clog, rc>>
tvars == <<current_experiment_dir, files, clock, tlast, tcalls>>
kvars == <<sys_stdout, sys_stderr, old_stdout, old_stderr, captured, agent_output, kpc, runs>>
oldvars == <<gvars, fvars, xvars, avars>>
nonr == <<oldvars, uvars, kvars, tvars, cvars>>
nonu == <<oldvars, rvars, kvars, tvars, cvars>>
nonk == <<oldvars, rvars, uvars, tvars, cvars>>
nont == <<oldvars, rvars, uvars, kvars, cvars>>
nonc == <<oldvars, rvars, uvars, kvars, tvars>>
evars == <<rvars, uvars, kvars, tvars, cvars>>
vars == <<gvars, fvars, xvars, avars, evars>>

-----------------------------------------------------------------------------
(* Python str operations *)

\* the character at place i, "" when there is none
Char(s, i) == IF i \in 1..Len(s) THEN SubSeq(s, i, i) ELSE ""

\* p in s
Contains(s, p) ==
    \E i \in 1..(Len(s) - Len(p) + 1) : SubSeq(s, i, i + Len(p) - 1) = p

\* s.startswith(p)
StartsWith(s, p) == Len(s) >= Len(p) /\ SubSeq(s, 1, Len(p)) = p

UpperLetters == "ABCDEFGHIJKLMNOPQRSTUVWXYZ"
LowerLetters == "abcdefghijklmnopqrstuvwxyz"
Digits == "0123456789"

IndexIn(alphabet, c) == CHOOSE i \in 1..Len(alphabet) : Char(alphabet, i) = c

LowerChar(c) ==
    IF Contains(UpperLetters, c) THEN Char(LowerLetters, IndexIn(UpperLetters, c)) ELSE c

\* s.lower()
RECURSIVE Lower(_)
Lower(s) == IF s = "" THEN "" ELSE LowerChar(Char(s, 1)) \o Lower(Tail(s))

IsDigit(c) == Len(c) = 1 /\ Contains(Digits, c)

IsSpace(c) == c \in {" ", "\t", "\n", "\r", "\f"}

RECURSIVE LStrip(_)
LStrip(s) == IF s # "" /\ IsSpace(Char(s, 1)) THEN LStrip(Tail(s)) ELSE s

RECURSIVE RStrip(_)
RStrip(s) ==
    IF s # "" /\ IsSpace(Char(s, Len(s))) THEN RStrip(SubSeq(s, 1, Len(s) - 1)) ELSE s

\* s.strip()
Strip(s) == RStrip(LStrip(s))

\* s.replace(old, new), old not empty: leftmost occurrences, not overlapping
RECURSIVE Replace(_, _, _)
Replace(s, old, new) ==
    IF Len(s) < Len(old) THEN s
    ELSE IF StartsWith(s, old)
         THEN new \o Replace(SubSeq(s, Len(old) + 1, Len(s)), old, new)
         ELSE Char(s, 1) \o Replace(Tail(s), old, new)

\* s.split(sep) for a one-character sep
RECURSIVE SplitFrom(_, _, _)
SplitFrom(s, sep, acc) ==
    IF s = "" THEN <<acc>>
    ELSE IF Char(s, 1) = sep
         THEN <<acc>> \o SplitFrom(Tail(s), sep, "")
         ELSE SplitFrom(Tail(s), sep, acc \o Char(s, 1))

Split(s, sep) == SplitFrom(s, sep, "")

\* sep.join(parts)
RECURSIVE Join(_, _)
Join(sep, parts) ==
    IF parts = <<>> THEN ""
    ELSE IF Len(parts) = 1 THEN parts[1]
         ELSE parts[1] \o sep \o Join(sep, Tail(parts))

-----------------------------------------------------------------------------
(* Durations: Python floats as exact rationals *)

Dur(n, d) == [num |-> n, den |-> d]
DurEq(a, b) == a.num * b.den = b.num * a.den
DurLeq(a, b) == a.num * b.den <= b.num * a.den

RECURSIVE Pow10(_)
Pow10(k) == IF k = 0 THEN 1 ELSE 10 * Pow10(k - 1)

\* int(s) for a string of decimal digits
RECURSIVE DigitsValue(_)
DigitsValue(s) ==
    IF s = "" THEN 0
    ELSE 10 * DigitsValue(SubSeq(s, 1, Len(s) - 1))
         + (IndexIn(Digits, Char(s, Len(s))) - 1)

\* the longest prefix of s made of digits
RECURSIVE DigitRun(_)
DigitRun(s) ==
    IF s # "" /\ IsDigit(Char(s, 1)) THEN Char(s, 1) \o DigitRun(Tail(s)) ELSE ""

\* NumberAt with the pattern cut to \d+: the fraction is not matched
NumberAtIntegerOnly(s) == DigitRun(s)

\* what \d+(?:\.\d+)? matches at the start of s ("" when it does not match)
NumberAt(s) ==
    LET ip == DigitRun(s)
        rest == SubSeq(s, Len(ip) + 1, Len(s))
        fp == IF StartsWith(rest, ".") THEN DigitRun(Tail(rest)) ELSE ""
    IN  IF ip = "" THEN ""
        ELSE IF fp = "" THEN ip ELSE ip \o "." \o fp

\* float(s) for s matched by \d+(?:\.\d+)?
ParseFloat(s) ==
    LET ip == DigitRun(s)
        fp == IF Len(ip) < Len(s) THEN SubSeq(s, Len(ip) + 2, Len(s)) ELSE ""
    IN  Dur(DigitsValue(ip) * Pow10(Len(fp)) + DigitsValue(fp), Pow10(Len(fp)))

-----------------------------------------------------------------------------
(* GeminiModel._messages_to_prompt *)

\* dict.get(key, default)
Get(d, key, default) == IF key \in DOMAIN d THEN d[key] ELSE default

PromptPart(msg) ==
    LET role == Get(msg, "role", "user")
        content == Get(msg, "content", "")
    IN  IF role = "system" THEN <<"System: " \o content>>
        ELSE IF role = "user" THEN <<"User: " \o content>>
        ELSE IF role = "assistant" THEN <<"Assistant: " \o content>>
        ELSE <<>>

RECURSIVE prompt_parts(_)
prompt_parts(msgs) ==
    IF msgs = <<>> THEN <<>> ELSE PromptPart(Head(msgs)) \o prompt_parts(Tail(msgs))

messages_to_prompt(msgs) == Join("\n\n", prompt_parts(msgs))

-----------------------------------------------------------------------------
(* GeminiModel.__call__: the provider's answers *)

\* What one generate_content call can produce.  kind "raise": the call raises
\* an exception of the Exception family whose str() is err.  kind "resp": a
\* response object with ncand candidates; a response without candidates has
\* (or lacks) prompt_feedback, which has (or lacks) block_reason; on a
\* response with candidates, reading .text returns text (text_mode "ok"),
\* raises ValueError or AttributeError, or raises another exception whose
\* str() is err ("other"); cand tells what the first candidate holds.
Answer(kind, err, ncand, fb, reason, text_mode, txt, cand, part) ==
    [kind |-> kind, err |-> err, ncand |-> ncand, feedback |-> fb,
     block_reason |-> reason, text_mode |-> text_mode, text |-> txt,
     cand |-> cand, part_text |-> part]

Raises(err) == Answer("raise", err, 0, "none", "", "ok", "", "parts", "")
Blocked(fb, reason) == Answer("resp", "", 0, fb, reason, "ok", "", "parts", "")
Texted(txt) == Answer("resp", "", 1, "none", "", "ok", txt, "parts", "part of " \o txt)
Fallback(mode, cand, part) == Answer("resp", "", 1, "none", "", mode, "", cand, part)
TextRaises(err) == Answer("resp", err, 1, "none", "", "other", "", "parts", "")

\* str() of the errors the provider raises
ProviderErrors == {
    "429 Resource exhausted",
    "Quota exceeded. Please retry in 5.5s",
    "429 Too Many Requests: Retry in 30 seconds",
    "rate limit reached, retry in .5",
    "Failed to generate content",
    "retry in 5.5",
    "500 Internal error" }

\* block reasons a response without candidates reports
BlockReasons == { "SAFETY", "OTHER", "MODERATE_RISK" }

Answers ==
    { Raises(e) : e \in ProviderErrors }
    \cup { Blocked("reason", b) : b \in BlockReasons }
    \cup { Blocked("noreason", ""), Blocked("none", "") }
    \cup { Texted("42"), Texted("") }
    \cup { Fallback("ValueError", "parts", "from part"),
           Fallback("AttributeError", "parts", "from part"),
           Fallback("ValueError", "parts", ""),
           Fallback("ValueError", "empty", ""),
           Fallback("ValueError", "nocontent", ""),
           Fallback("AttributeError", "noparts", "") }
    \cup { TextRaises("429 quota"), TextRaises("KeyError: text") }

-----------------------------------------------------------------------------
(* GeminiModel.__call__: one pass of the retry loop *)

\* An exception: its str() and the place that raised it ("provider" for the
\* google.generativeai library, a line of gemini.py otherwise).
Exc(msg, origin) == [msg |-> msg, origin |-> origin]
NoExc == Exc("", "none")

Returned(txt) == [kind |-> "return", role |-> "assistant", content |-> txt, exc |-> NoExc]
Raised(e) == [kind |-> "raise", role |-> "", content |-> "", exc |-> e]
NoResult == [kind |-> "none", role |-> "", content |-> "", exc |-> NoExc]

\* lines 117-130: the exception a response without candidates makes the code raise
BlockedExc(r) ==
    IF r.feedback # "none"
    THEN LET block_reason == IF r.feedback = "reason" THEN r.block_reason ELSE "UNKNOWN"
         IN  Exc("Gemini blocked the response: " \o block_reason, "gemini.py:128")
    ELSE Exc("Gemini returned empty candidates (content may be blocked)", "gemini.py:130")

\* ExtractText reading the first part before the .text property
ExtractTextPartsFirst(r) ==
    IF r.ncand > 0 /\ r.cand = "parts" THEN Returned(r.part_text)
    ELSE IF r.text_mode = "ok" THEN Returned(r.text)
    ELSE Raised(Exc("Response candidate has no content", "gemini.py:146"))

\* lines 132-148: the text of a response with candidates, or the exception
ExtractText(r) ==
    IF r.text_mode = "ok" THEN Returned(r.text)
    ELSE IF r.text_mode \in {"ValueError", "AttributeError"}
    THEN IF r.ncand > 0
         THEN IF r.cand \in {"parts", "empty"}
              THEN IF r.cand = "parts"
                   THEN Returned(r.part_text)
                   ELSE Raised(Exc("Response candidate has no parts", "gemini.py:144"))
              ELSE Raised(Exc("Response candidate has no content", "gemini.py:146"))
         ELSE Raised(Exc("No valid response candidates", "gemini.py:148"))
    ELSE Raised(Exc(r.err, "provider"))

\* lines 110-151: the try block, given what generate_content did
TryBody(r) ==
    IF r.kind = "raise" THEN Raised(Exc(r.err, "provider"))
    ELSE IF r.ncand = 0 THEN Raised(BlockedExc(r))
    ELSE ExtractText(r)

\* IsRateLimit taking the word "retry" for a rate-limit signal too
IsRateLimitRetryWord(error_msg) ==
    \/ Contains(error_msg, "429")
    \/ Contains(Lower(error_msg), "quota")
    \/ Contains(Lower(error_msg), "rate")
    \/ Contains(Lower(error_msg), "retry")

\* line 157
IsRateLimit(error_msg) ==
    \/ Contains(error_msg, "429")
    \/ Contains(Lower(error_msg), "quota")
    \/ Contains(Lower(error_msg), "rate")

\* line 166: group 1 of re.search(r"retry in (\d+(?:\.\d+)?)", s), "" when no match
RetryInGroup(s) ==
    LET pre == "retry in "
        at == { i \in 1..Len(s) : NumberAt(SubSeq(s, i + Len(pre), Len(s))) # ""
                                  /\ SubSeq(s, i, i + Len(pre) - 1) = pre }
    IN  IF at = {} THEN ""
        ELSE LET i == CHOOSE k \in at : \A j \in at : k <= j
             IN  NumberAt(SubSeq(s, i + Len(pre), Len(s)))

\* BackoffDelay dividing by 2^attempt where the code multiplies
BackoffDelayShrinking(error_msg, base, att) ==
    LET exponential == Dur(base.num, base.den * 2^att)
        group == RetryInGroup(Lower(error_msg))
    IN  IF Contains(Lower(error_msg), "retry in") /\ group # ""
        THEN ParseFloat(group)
        ELSE exponential

\* BackoffDelay with the same delay at every attempt
BackoffDelayFlat(error_msg, base, att) ==
    LET group == RetryInGroup(Lower(error_msg))
    IN  IF Contains(Lower(error_msg), "retry in") /\ group # ""
        THEN ParseFloat(group)
        ELSE base

\* lines 160-170
BackoffDelay(error_msg, base, att) ==
    LET exponential == Dur(base.num * 2^att, base.den)
        group == RetryInGroup(Lower(error_msg))
    IN  IF Contains(Lower(error_msg), "retry in") /\ group # ""
        THEN ParseFloat(group)
        ELSE exponential

ExhaustedExc(n) ==
    Exc("Rate limit exceeded after " \o ToString(n) \o " attempts. Please wait before retrying.",
        "gemini.py:176")

FallthroughExc(n) == Exc("Failed after " \o ToString(n) \o " attempts", "gemini.py:181")

\* Handler retrying every exception while attempts remain
HandlerRetryAll(e, att, retries) ==
    IF att < retries - 1 THEN "sleep"
    ELSE IF IsRateLimit(e.msg) THEN "exhausted" ELSE "reraise"

\* Handler comparing attempt with max_retries instead of max_retries - 1
HandlerOffByOne(e, att, retries) ==
    IF IsRateLimit(e.msg)
    THEN IF att < retries THEN "sleep" ELSE "exhausted"
    ELSE "reraise"

\* Handler re-raising the provider's error on the last attempt
HandlerReraisesLast(e, att, retries) ==
    IF IsRateLimit(e.msg) /\ att < retries - 1 THEN "sleep" ELSE "reraise"

\* lines 153-179: what the except clause does with the exception e at attempt att:
\* "sleep" (then continue), or raise
Handler(e, att, retries) ==
    IF IsRateLimit(e.msg)
    THEN IF att < retries - 1 THEN "sleep" ELSE "exhausted"
    ELSE "reraise"

CallEvent(att, r) == [ev |-> "call", att |-> att, answer |-> r, d |-> Dur(0, 1)]
SleepEvent(att, r, d) == [ev |-> "sleep", att |-> att, answer |-> r, d |-> d]

-----------------------------------------------------------------------------
(* Bounds and inputs *)

MaxRetries == 3
MaxMsgs == 3
MaxLines == 2
MaxAnsiLen == 6
MaxCleans == 2

\* max_retries as the constructor may receive it (range() of a negative is empty)
RetryChoices == (-1)..MaxRetries

\* retry_delay: 2.0 (the default) and 0.5
RetryDelays == { Dur(2, 1), Dur(1, 2) }

\* message dicts; a dict may lack "role" or "content"
MessageChoices == {
    [role |-> "system", content |-> "be brief"],
    [role |-> "user", content |-> "hi"],
    [role |-> "assistant", content |-> "ok"],
    [role |-> "tool-response", content |-> "obs"],
    [content |-> "plain"],
    [role |-> "user"] }

RECURSIVE SeqsUpTo(_, _)
SeqsUpTo(S, n) ==
    IF n = 0 THEN { <<>> }
    ELSE LET shorter == SeqsUpTo(S, n - 1)
         IN  shorter \cup { Append(q, x) : q \in shorter, x \in S }

Conversations == SeqsUpTo(MessageChoices, MaxMsgs)

\* the conversations __call__ is invoked with
CallConversations == {
    << [role |-> "system", content |-> "be brief"], [role |-> "user", content |-> "hi"] >>,
    << [role |-> "user", content |-> "hi"] >> }

-----------------------------------------------------------------------------
(* The states in which a component is not in use *)

NoSection == [type |-> "none", content |-> <<>>]

FIdle ==
    /\ fmsgs = <<>>
    /\ fprompt = ""
    /\ fpc = "off"

XIdle ==
    /\ text = ""
    /\ lines = <<>>
    /\ idx = 0
    /\ sections = <<>>
    /\ current_section = NoSection
    /\ in_code_block = FALSE
    /\ xpc = "off"

AIdle ==
    /\ atext = ""
    /\ aout = <<>>

NoCall == [op |-> "none"]

RIdle ==
    /\ store = <<>>
    /\ disk = {}
    /\ rlast = NoCall
    /\ fresh = {}

UIdle ==
    /\ chat = <<>>
    /\ shown = <<>>
    /\ upc = "off"
    /\ ulast = NoCall

KIdle ==
    /\ sys_stdout = "stdout"
    /\ sys_stderr = "stderr"
    /\ old_stdout = "stdout"
    /\ old_stderr = "stderr"
    /\ captured = ""
    /\ agent_output = <<>>
    /\ kpc = "off"
    /\ runs = 0

TIdle ==
    /\ current_experiment_dir = ""
    /\ files = <<>>
    /\ clock = 0
    /\ tlast = NoCall
    /\ tcalls = 0

CIdle ==
    /\ cpc = "off"
    /\ api_key = ""
    /\ user_input = ""
    /\ clog = <<>>
    /\ rc = -1

EIdle == RIdle /\ UIdle /\ KIdle /\ TIdle /\ CIdle

GIdle ==
    /\ max_retries = 3
    /\ retry_delay = Dur(2, 1)
    /\ messages = <<>>
    /\ prompt = ""
    /\ pc = "off"
    /\ attempt = 0
    /\ delay = Dur(0, 1)
    /\ log = <<>>
    /\ result = NoResult

-----------------------------------------------------------------------------
(* GeminiModel: __init__ and __call__ *)

\* __init__ (lines 16-40)
GInit ==
    /\ max_retries \in RetryChoices
    /\ retry_delay \in RetryDelays
    /\ messages = <<>>
    /\ prompt = ""
    /\ pc = "ready"
    /\ attempt = 0
    /\ delay = Dur(0, 1)
    /\ log = <<>>
    /\ result = NoResult

\* Invoke running one pass of the loop whatever max_retries is
InvokeEntersLoop(msgs) ==
    /\ pc \in {"ready", "done"}
    /\ messages' = msgs
    /\ prompt' = messages_to_prompt(msgs)
    /\ attempt' = 0
    /\ delay' = Dur(0, 1)
    /\ log' = <<>>
    /\ pc' = "attempt"
    /\ result' = NoResult
    /\ UNCHANGED <<evars, avars, max_retries, retry_delay, fvars, xvars>>

\* __call__ up to the first pass of the loop (lines 103-109), or to line 181
\* when range(max_retries) is empty
Invoke(msgs) ==
    /\ pc \in {"ready", "done"}
    /\ messages' = msgs
    /\ prompt' = messages_to_prompt(msgs)
    /\ attempt' = 0
    /\ delay' = Dur(0, 1)
    /\ log' = <<>>
    /\ IF 0 < max_retries
       THEN pc' = "attempt" /\ result' = NoResult
       ELSE pc' = "done" /\ result' = Raised(FallthroughExc(max_retries))
    /\ UNCHANGED <<evars, avars, max_retries, retry_delay, fvars, xvars>>

\* one pass of the loop: the remote call, the try block and the except clause,
\* up to the return, the raise or the call of time.sleep (lines 110-173)
Attempt(r) ==
    /\ pc = "attempt"
    /\ log' = Append(log, CallEvent(attempt, r))
    /\ LET out == TryBody(r)
           todo == Handler(out.exc, attempt, max_retries)
       IN  IF out.kind = "return"
           THEN pc' = "done" /\ result' = out /\ delay' = delay
           ELSE IF todo = "sleep"
           THEN /\ pc' = "sleep"
                /\ delay' = BackoffDelay(out.exc.msg, retry_delay, attempt)
                /\ result' = result
           ELSE IF todo = "exhausted"
           THEN pc' = "done" /\ result' = Raised(ExhaustedExc(max_retries)) /\ delay' = delay
           ELSE pc' = "done" /\ result' = Raised(out.exc) /\ delay' = delay
    /\ UNCHANGED <<evars, avars, max_retries, retry_delay, messages, prompt, attempt, fvars, xvars>>

\* Sleep ending the call after the sleep, without a new pass of the loop
SleepGivesUp ==
    /\ pc = "sleep"
    /\ log' = Append(log, SleepEvent(attempt, log[Len(log)].answer, delay))
    /\ attempt' = attempt + 1
    /\ pc' = "done"
    /\ result' = Raised(FallthroughExc(max_retries))
    /\ UNCHANGED <<evars, avars, max_retries, retry_delay, messages, prompt, delay, fvars, xvars>>

\* Sleep going back to the same pass of the loop: attempt is not advanced
SleepKeepsAttempt ==
    /\ pc = "sleep"
    /\ log' = Append(log, SleepEvent(attempt, log[Len(log)].answer, delay))
    /\ pc' = "attempt"
    /\ UNCHANGED <<evars, avars, max_retries, retry_delay, messages, prompt, attempt, delay,
                   result, fvars, xvars>>

\* time.sleep returns, continue: the next pass of the loop, or line 181 when
\* the range is used up (lines 173-174, 109, 181)
Sleep ==
    /\ pc = "sleep"
    /\ log' = Append(log, SleepEvent(attempt, log[Len(log)].answer, delay))
    /\ attempt' = attempt + 1
    /\ IF attempt + 1 < max_retries
       THEN pc' = "attempt" /\ result' = result
       ELSE pc' = "done" /\ result' = Raised(FallthroughExc(max_retries))
    /\ UNCHANGED <<evars, avars, max_retries, retry_delay, messages, prompt, delay, fvars, xvars>>

Init == GInit /\ FIdle /\ XIdle /\ AIdle /\ EIdle

Next ==
    \/ \E msgs \in CallConversations : Invoke(msgs)
    \/ \E r \in Answers : Attempt(r)
    \/ Sleep

Spec == Init /\ [][Next]_vars

\* generate_content and time.sleep block the caller and come back: a pass of
\* the loop that is under way is finished, a sleep that has begun ends.
\* Attempt(r) is enabled exactly when pc = "attempt", whatever r is, and every
\* Attempt step leaves pc = "attempt": weak fairness of Attempt for one answer
\* says the same as weak fairness of \E r \in Answers : Attempt(r), namely
\* that __call__ does not stay at the remote call for ever.
SpecLive == Spec /\ WF_vars(Attempt(Texted("42"))) /\ WF_vars(Sleep)

-----------------------------------------------------------------------------
(* A direct call of GeminiModel._messages_to_prompt *)

FInit ==
    /\ fmsgs \in Conversations
    /\ fprompt = ""
    /\ fpc = "input"

\* _messages_to_prompt(fmsgs) (lines 183-198)
Flatten ==
    /\ fpc = "input"
    /\ fprompt' = messages_to_prompt(fmsgs)
    /\ fpc' = "done"
    /\ UNCHANGED <<evars, avars, fmsgs, gvars, xvars>>

InitPrompt == FInit /\ GIdle /\ XIdle /\ AIdle /\ EIdle

NextPrompt == Flatten

SpecPrompt == InitPrompt /\ [][NextPrompt]_vars

-----------------------------------------------------------------------------
(* StreamlitCodeAgent.extract_useful_output *)

\* The box-drawing characters of line 48 are not ASCII; in the transcripts of
\* this model each is written as the ASCII character at the same place below:
\*   U+2500 U+256D U+256E U+256F U+2570 U+2503 U+2501 U+2502
BoxChars == << "~", "^", "@", "$", "&", "%", "#", "?" >>

\* The backquote of the code fences (lines 94 and 97) cannot be written in a
\* string here either; the transcripts of this model write it as an apostrophe.
Fence == "'''"
FencePy == Fence \o "py"

\* line 48
HasBoxChar(line) == \E k \in DOMAIN BoxChars : Contains(line, BoxChars[k])

\* line 52
IsBanner(line) == Contains(line, "New run") \/ Contains(line, "GeminiModel")

\* re.match(r'^\s*Step \d+\s*$', line)
IsStepLine(line) ==
    LET t == LStrip(line)
        after == SubSeq(t, Len("Step ") + 1, Len(t))
        num == DigitRun(after)
    IN  /\ StartsWith(t, "Step ")
        /\ num # ""
        /\ LStrip(SubSeq(after, Len(num) + 1, Len(after))) = ""

\* line 56
IsSeparator(line) == IsStepLine(line) \/ Contains(line, "Output message of the LLM:")

Section(type, content) == [type |-> type, content |-> content]

\* Closed keeping only the sections that hold content
ClosedDropsEmpty(secs, cur) ==
    IF cur # NoSection /\ cur.content # <<>> THEN Append(secs, cur) ELSE secs

\* "if current_section:" and the append of lines 61-62, 67-68, 74-75, 80-81, 86-87
\* and 111-112
Closed(secs, cur) == IF cur # NoSection THEN Append(secs, cur) ELSE secs

Locals(secs, cur, incode) ==
    [sections |-> secs, current_section |-> cur, in_code_block |-> incode]

\* CodeLine dropping the lines that start with "[", as lines 107-108 do
CodeLineDropsBrackets(st, line) ==
    LET cur == st.current_section
    IN  IF Contains(line, FencePy)
        THEN Locals(st.sections, cur, TRUE)
        ELSE IF Contains(line, Fence) /\ st.in_code_block
        THEN Locals(st.sections, cur, FALSE)
        ELSE IF Contains(line, "<end_code>")
        THEN st
        ELSE IF (st.in_code_block \/ Strip(line) # "") /\ ~StartsWith(Strip(line), "[")
        THEN Locals(st.sections, Section(cur.type, Append(cur.content, line)),
                    st.in_code_block)
        ELSE st

\* CodeLine without the <end_code> branch: the sentinel is kept as content
CodeLineKeepsSentinel(st, line) ==
    LET cur == st.current_section
    IN  IF Contains(line, FencePy)
        THEN Locals(st.sections, cur, TRUE)
        ELSE IF Contains(line, Fence) /\ st.in_code_block
        THEN Locals(st.sections, cur, FALSE)
        ELSE IF st.in_code_block \/ Strip(line) # ""
        THEN Locals(st.sections, Section(cur.type, Append(cur.content, line)),
                    st.in_code_block)
        ELSE st

\* lines 93-104: a line met while a code section is open
CodeLine(st, line) ==
    LET cur == st.current_section
    IN  IF Contains(line, FencePy)
        THEN Locals(st.sections, cur, TRUE)
        ELSE IF Contains(line, Fence) /\ st.in_code_block
        THEN Locals(st.sections, cur, FALSE)
        ELSE IF Contains(line, "<end_code>")
        THEN st
        ELSE IF st.in_code_block \/ Strip(line) # ""
        THEN Locals(st.sections, Section(cur.type, Append(cur.content, line)),
                    st.in_code_block)
        ELSE st

\* PlainLine without the test of current_section
PlainLineNoGuard(st, line) ==
    LET cur == st.current_section
    IN  IF Strip(line) # "" /\ ~StartsWith(Strip(line), "[")
        THEN Locals(st.sections, Section(cur.type, Append(cur.content, Strip(line))),
                    st.in_code_block)
        ELSE st

\* lines 107-108: any other line
PlainLine(st, line) ==
    LET cur == st.current_section
    IN  IF cur # NoSection /\ Strip(line) # "" /\ ~StartsWith(Strip(line), "[")
        THEN Locals(st.sections, Section(cur.type, Append(cur.content, Strip(line))),
                    st.in_code_block)
        ELSE st

\* lines 47-108: the body of the for loop for one line
LineStep(st, line) ==
    LET secs == Closed(st.sections, st.current_section)
        s == Strip(line)
    IN  IF HasBoxChar(line) THEN st
        ELSE IF IsBanner(line) THEN st
        ELSE IF IsSeparator(line) THEN st
        ELSE IF StartsWith(s, "Thought:")
        THEN Locals(secs, Section("thought", <<Strip(Replace(line, "Thought:", ""))>>),
                    st.in_code_block)
        ELSE IF StartsWith(s, "Code:")
        THEN Locals(secs, Section("code", <<>>), FALSE)
        ELSE IF StartsWith(s, "Observation:")
        THEN Locals(secs, Section("observation", <<Strip(Replace(line, "Observation:", ""))>>),
                    st.in_code_block)
        ELSE IF Contains(line, "Execution logs:")
        THEN Locals(secs, Section("execution", <<>>), st.in_code_block)
        ELSE IF StartsWith(s, "Out -") \/ StartsWith(s, "Final answer:")
        THEN Locals(secs,
                    Section("final",
                            <<Strip(Replace(Replace(line, "Out -", ""), "Final answer:", ""))>>),
                    st.in_code_block)
        ELSE IF st.current_section # NoSection /\ st.current_section.type = "code"
        THEN CodeLine(st, line)
        ELSE PlainLine(st, line)

\* the lines a transcript is made of
LineChoices == {
    "Thought: plan",
    "Code:",
    FencePy,
    "x=1",
    Fence,
    "<end_code>",
    "Observation: ok",
    "Final answer: 42",
    "Out - 7",
    "Execution logs:",
    "",
    "  note  ",
    "[1, 2]",
    "^~~~@",
    "Step 1",
    "Thought: start a New run",
    "Observation: a Observation: b",
    "? total 5 ?" }

\* the transcript of the structuring example
ExampleTranscript ==
    "Thought: plan\nCode:\n" \o FencePy \o "\nx=1\n" \o Fence
        \o "\n<end_code>\nObservation: ok\nFinal answer: 42"

\* longer transcripts: a code block fenced without a language, list literals
\* inside and outside a code block, lines before the first header
ExtraTranscripts == {
    Join("\n", << "Code:", Fence, "x=1", Fence >>),
    Join("\n", << "Code:", FencePy, "[1, 2]", Fence, "Observation: ok", "[1, 2]" >>),
    Join("\n", << "x=1", "", "Thought: plan", "? total 5 ?", "  note  ", "Code:" >>) }

Transcripts ==
    { Join("\n", ls) : ls \in SeqsUpTo(LineChoices, MaxLines) }
    \cup { ExampleTranscript } \cup ExtraTranscripts

XInit ==
    /\ text \in Transcripts
    /\ lines = <<>>
    /\ idx = 0
    /\ sections = <<>>
    /\ current_section = NoSection
    /\ in_code_block = FALSE
    /\ xpc = "input"

\* lines 40-44
Begin ==
    /\ xpc = "input"
    /\ lines' = Split(text, "\n")
    /\ idx' = 0
    /\ sections' = <<>>
    /\ current_section' = NoSection
    /\ in_code_block' = FALSE
    /\ xpc' = "loop"
    /\ UNCHANGED <<evars, avars, text, gvars, fvars>>

\* one pass of the for loop (lines 46-108)
Line ==
    /\ xpc = "loop"
    /\ idx < Len(lines)
    /\ LET st == LineStep(Locals(sections, current_section, in_code_block), lines[idx + 1])
       IN  /\ sections' = st.sections
           /\ current_section' = st.current_section
           /\ in_code_block' = st.in_code_block
    /\ idx' = idx + 1
    /\ UNCHANGED <<evars, avars, text, lines, xpc, gvars, fvars>>

\* lines 110-114: the last section, and the return
Flush ==
    /\ xpc = "loop"
    /\ idx = Len(lines)
    /\ sections' = Closed(sections, current_section)
    /\ xpc' = "done"
    /\ UNCHANGED <<evars, avars, text, lines, idx, current_section, in_code_block, gvars, fvars>>

InitExtract == XInit /\ GIdle /\ FIdle /\ AIdle /\ EIdle

NextExtract == Begin \/ Line \/ Flush

SpecExtract == InitExtract /\ [][NextExtract]_vars

-----------------------------------------------------------------------------
(* StreamlitCodeAgent.clean_ansi_codes *)

\* The escape character \x1b cannot be written in a string here; the texts of
\* this model write it as a backslash.
Esc == "\\"

IsLetter(c) == Len(c) = 1 /\ (Contains(UpperLetters, c) \/ Contains(LowerLetters, c))

\* the longest prefix of s made of digits and semicolons: [0-9;]*
RECURSIVE ParamRun(_)
ParamRun(s) ==
    IF s # "" /\ (IsDigit(Char(s, 1)) \/ Char(s, 1) = ";")
    THEN Char(s, 1) \o ParamRun(Tail(s))
    ELSE ""

\* the length of what \x1b\[[0-9;]*F matches at the start of s, F being "m"
\* (line 28) or any letter (line 32); 0 when it does not match
EscapeLen(s, any_letter) ==
    LET params == ParamRun(SubSeq(s, 3, Len(s)))
        final == Char(s, 3 + Len(params))
    IN  IF /\ StartsWith(s, Esc \o "[")
           /\ (IF any_letter THEN IsLetter(final) ELSE final = "m")
        THEN 3 + Len(params)
        ELSE 0

\* pattern.sub('', s): the matches, leftmost first and not overlapping, removed
RECURSIVE SubEscapes(_, _)
SubEscapes(s, any_letter) ==
    IF s = "" THEN ""
    ELSE LET n == EscapeLen(s, any_letter)
         IN  IF n > 0
             THEN SubEscapes(SubSeq(s, n + 1, Len(s)), any_letter)
             ELSE Char(s, 1) \o SubEscapes(Tail(s), any_letter)

\* lines 25-35
clean_ansi_codes(s) == SubEscapes(SubEscapes(s, FALSE), TRUE)

AnsiAlphabet == { Esc, "[", "1", "m", "K" }

AnsiTexts == { Join("", q) : q \in SeqsUpTo(AnsiAlphabet, MaxAnsiLen) }

AInit ==
    /\ atext \in AnsiTexts
    /\ aout = <<>>

\* clean_ansi_codes applied to the text, then to what it returned
Clean ==
    /\ Len(aout) < MaxCleans
    /\ aout' = Append(aout, clean_ansi_codes(IF aout = <<>> THEN atext ELSE aout[Len(aout)]))
    /\ UNCHANGED <<evars, atext, gvars, fvars, xvars>>

InitAnsi == AInit /\ GIdle /\ FIdle /\ XIdle /\ EIdle

NextAnsi == Clean

SpecAnsi == InitAnsi /\ [][NextAnsi]_vars

-----------------------------------------------------------------------------
(* What the properties below read from the log of a call *)

CallIdx == { i \in DOMAIN log : log[i].ev = "call" }
SleepIdx == { i \in DOMAIN log : log[i].ev = "sleep" }
NCalls == Cardinality(CallIdx)
NSleeps == Cardinality(SleepIdx)

\* the answer at log[i] ended the call at once: nothing follows it
EndsCallAt(i) == i = Len(log) /\ pc = "done"

\* provider errors by what their text says, written out
Texts429 == { "429 Resource exhausted", "429 Too Many Requests: Retry in 30 seconds" }
RateLimitTexts ==
    Texts429 \cup { "Quota exceeded. Please retry in 5.5s", "rate limit reached, retry in .5" }
PlainTexts == { "retry in 5.5", "500 Internal error" }

\* the hint each error text carries as a decimal number of seconds
HintOf ==
    [ e \in { "Quota exceeded. Please retry in 5.5s",
              "429 Too Many Requests: Retry in 30 seconds" } |->
        IF e = "Quota exceeded. Please retry in 5.5s" THEN Dur(11, 2) ELSE Dur(30, 1) ]

SafetyAnswer == Blocked("reason", "SAFETY")

-----------------------------------------------------------------------------
\* C1: a response with zero candidates and block reason "SAFETY" makes __call__
\* raise the block error right after that response: no later remote call and
\* no sleep follows it, whatever max_retries is and however many attempts remain.
C1_SafetyBlockNotRetried ==
    \A i \in CallIdx :
        log[i].answer = SafetyAnswer =>
            /\ EndsCallAt(i)
            /\ pc # "sleep"
            /\ result = Raised(Exc("Gemini blocked the response: SAFETY", "gemini.py:128"))
            /\ (i = 1 => NCalls = 1 /\ NSleeps = 0)

C1_Witness ==
    /\ pc = "done"
    /\ max_retries = 3
    /\ Len(log) = 1
    /\ log[1].answer = SafetyAnswer
    /\ result.kind = "raise"

\* C2 (as claimed): a response with zero candidates ends the call at once,
\* whatever its block reason says: no retry, no sleep.
C2_BlockedNeverRetried ==
    \A i \in CallIdx :
        (log[i].answer.kind = "resp" /\ log[i].answer.ncand = 0) =>
            EndsCallAt(i) /\ result.kind = "raise"

\* C3: an error whose text holds none of "429", "quota", "rate" is re-raised
\* unchanged right after the attempt that met it, at any attempt index, with no
\* sleep and no further remote call.
C3_PlainErrorReraised ==
    \A i \in CallIdx :
        (log[i].answer.kind = "raise" /\ log[i].answer.err \in PlainTexts) =>
            /\ EndsCallAt(i)
            /\ result = Raised(Exc(log[i].answer.err, "provider"))
            /\ NSleeps = log[i].att

C3_Witness ==
    /\ pc = "done"
    /\ attempt = 1
    /\ log[Len(log)].answer = Raises("retry in 5.5")
    /\ result.exc = Exc("retry in 5.5", "provider")

\* every remote call but the last met an error of the set E
EarlierCallsIn(E) ==
    \A i \in CallIdx :
        i < Len(log) => log[i].answer.kind = "raise" /\ log[i].answer.err \in E

LastAnswer == log[Len(log)].answer

\* C4: "429" errors on attempts 1..k-1 and a response with text on attempt k:
\* __call__ returns that text as the assistant message, after exactly k remote
\* calls and exactly k-1 sleeps.
C4_SuccessAfterRateLimits ==
    (/\ pc = "done"
     /\ Len(log) > 0
     /\ EarlierCallsIn(Texts429)
     /\ LastAnswer \in { Texted("42"), Texted("") }) =>
        /\ result = Returned(LastAnswer.text)
        /\ NCalls = attempt + 1
        /\ NSleeps = attempt
        /\ NCalls <= max_retries

C4_Witness ==
    /\ pc = "done"
    /\ attempt = 2
    /\ EarlierCallsIn(Texts429)
    /\ LastAnswer = Texted("42")
    /\ result.content = "42"

\* the delays of the sleeps of this call, in order (the one in progress included)
SleepDelays ==
    LET RECURSIVE Pick(_)
        Pick(q) == IF q = <<>> THEN <<>>
                   ELSE (IF Head(q).ev = "sleep" THEN <<Head(q).d>> ELSE <<>>) \o Pick(Tail(q))
    IN  Pick(log) \o (IF pc = "sleep" THEN <<delay>> ELSE <<>>)

\* the error texts that led to those sleeps, in the same order
SleepCauses ==
    LET RECURSIVE Pick(_)
        Pick(q) == IF q = <<>> THEN <<>>
                   ELSE (IF Head(q).ev = "sleep" THEN <<Head(q).answer.err>> ELSE <<>>)
                        \o Pick(Tail(q))
    IN  Pick(log) \o (IF pc = "sleep" THEN <<LastAnswer.err>> ELSE <<>>)

\* C5 (as claimed): the delays of one call never decrease from one sleep to
\* the next, hints or no hints.
C5_DelaysNonDecreasing ==
    \A i \in 1..(Len(SleepDelays) - 1) : DurLeq(SleepDelays[i], SleepDelays[i + 1])

\* C5 (amended): the delays of the sleeps whose error carries no hint never
\* decrease from one such sleep to a later one of the same call.
C5_UnhintedDelaysNonDecreasing ==
    \A i, j \in 1..Len(SleepDelays) :
        (/\ i < j
         /\ SleepCauses[i] \in RateLimitTexts \ DOMAIN HintOf
         /\ SleepCauses[j] \in RateLimitTexts \ DOMAIN HintOf) =>
            DurLeq(SleepDelays[i], SleepDelays[j])

C5_Witness ==
    /\ Len(SleepDelays) = 2
    /\ SleepCauses[1] = "429 Resource exhausted"
    /\ SleepCauses[2] = "rate limit reached, retry in .5"
    /\ DurEq(SleepDelays[1], Dur(2, 1))
    /\ DurEq(SleepDelays[2], Dur(4, 1))

\* C6: after an error whose text says "retry in <number>", the sleep that
\* follows lasts <number> seconds, not the exponential delay of that attempt.
C6_HintIsTheDelay ==
    \A i \in 1..Len(SleepDelays) :
        SleepCauses[i] \in DOMAIN HintOf => DurEq(SleepDelays[i], HintOf[SleepCauses[i]])

C6_Witness ==
    /\ pc = "sleep"
    /\ attempt = 1
    /\ retry_delay = Dur(2, 1)
    /\ LastAnswer = Raises("Quota exceeded. Please retry in 5.5s")
    /\ delay = Dur(55, 10)

\* C7: with a rate-limit error on every attempt, __call__ makes max_retries
\* remote calls and max_retries - 1 sleeps, then raises "Rate limit exceeded
\* after <max_retries> attempts"; no sleep follows the last attempt.
C7_ExhaustedAfterMaxRetries ==
    (/\ max_retries >= 1
     /\ pc \in {"attempt", "sleep", "done"}
     /\ \A i \in CallIdx : log[i].answer.kind = "raise" /\ log[i].answer.err \in RateLimitTexts) =>
        /\ NCalls <= max_retries
        /\ pc = "sleep" => NCalls < max_retries
        /\ pc = "done" =>
            /\ NCalls = max_retries
            /\ NSleeps = max_retries - 1
            /\ log[Len(log)].ev = "call"
            /\ result.kind = "raise"
            /\ result.exc.origin = "gemini.py:176"
            /\ StartsWith(result.exc.msg,
                          "Rate limit exceeded after " \o ToString(max_retries) \o " attempts")

C7_Witness ==
    /\ pc = "done"
    /\ max_retries = 3
    /\ NCalls = 3
    /\ NSleeps = 2
    /\ \A i \in CallIdx : log[i].answer = Raises("429 Resource exhausted")
    /\ result.exc.msg = "Rate limit exceeded after 3 attempts. Please wait before retrying."

\* the answers that make the except clause see a rate-limit signal, written out
TakenForRateLimit ==
    { Raises(e) : e \in RateLimitTexts \cup { "Failed to generate content" } }
    \cup { Blocked("reason", "MODERATE_RISK"), TextRaises("429 quota") }

-----------------------------------------------------------------------------
(* Properties of _messages_to_prompt *)

\* s cut at every occurrence of the separator sep, leftmost first
RECURSIVE CutAt(_, _, _)
CutAt(s, sep, acc) ==
    IF s = "" THEN <<acc>>
    ELSE IF StartsWith(s, sep)
         THEN <<acc>> \o CutAt(SubSeq(s, Len(sep) + 1, Len(s)), sep, "")
         ELSE CutAt(Tail(s), sep, acc \o Char(s, 1))

\* the segments of a prompt: what one blank line separates
Segments(p) == IF p = "" THEN <<>> ELSE CutAt(p, "\n\n", "")

RoleLabels == { "System: ", "User: ", "Assistant: " }

\* C8 (as claimed): the prompt of a conversation of N messages is made of N
\* segments, one blank line apart, the i-th being a role label followed by the
\* content of the i-th message.
C8_OneSegmentPerMessage ==
    fpc = "done" =>
        /\ Len(Segments(fprompt)) = Len(fmsgs)
        /\ \A i \in 1..Len(fmsgs) :
            \E label \in RoleLabels :
                Segments(fprompt)[i] = label \o Get(fmsgs[i], "content", "")

\* the label the code gives a role it knows
LabelOf(role) ==
    IF role = "system" THEN "System: "
    ELSE IF role = "user" THEN "User: " ELSE "Assistant: "

\* What holds of the code next to C8: when every message has one of the roles
\* system, user, assistant (or no role, read as user), the prompt is made of
\* one segment per message, in order, one blank line apart.
KnownRolesOneSegmentPerMessage ==
    (/\ fpc = "done"
     /\ \A i \in 1..Len(fmsgs) :
            Get(fmsgs[i], "role", "user") \in {"system", "user", "assistant"}) =>
        /\ Len(Segments(fprompt)) = Len(fmsgs)
        /\ \A i \in 1..Len(fmsgs) :
            Segments(fprompt)[i]
                = LabelOf(Get(fmsgs[i], "role", "user")) \o Get(fmsgs[i], "content", "")

-----------------------------------------------------------------------------
(* Properties of extract_useful_output *)

\* the section type each header line of LineChoices opens, written out
HeaderTypeOf ==
    [ l \in { "Thought: plan", "Code:", "Observation: ok", "Final answer: 42", "Out - 7",
              "Execution logs:", "Observation: a Observation: b" } |->
        CASE l = "Thought: plan" -> "thought"
          [] l = "Code:" -> "code"
          [] l \in { "Observation: ok", "Observation: a Observation: b" } -> "observation"
          [] l = "Execution logs:" -> "execution"
          [] OTHER -> "final" ]

RECURSIVE HeaderTypes(_)
HeaderTypes(ls) ==
    IF ls = <<>> THEN <<>>
    ELSE (IF Head(ls) \in DOMAIN HeaderTypeOf THEN <<HeaderTypeOf[Head(ls)]>> ELSE <<>>)
         \o HeaderTypes(Tail(ls))

\* C10: the sections come in the textual order of their header lines, each typed
\* by its header; the example transcript yields four sections, in order:
\* thought ["plan"], code ["x=1"], observation ["ok"], final ["42"].
C10_ExampleSections ==
    xpc = "done" =>
        /\ [ i \in DOMAIN sections |-> sections[i].type ] = HeaderTypes(lines)
        /\ text = ExampleTranscript =>
                sections = << Section("thought", <<"plan">>),
                              Section("code", <<"x=1">>),
                              Section("observation", <<"ok">>),
                              Section("final", <<"42">>) >>

C10_Witness ==
    /\ xpc = "done"
    /\ text = ExampleTranscript
    /\ Len(sections) = 4
    /\ sections[2].type = "code"

-----------------------------------------------------------------------------
(* Properties of clean_ansi_codes *)

\* C11 (as claimed): clean_ansi_codes is idempotent: cleaning a cleaned text
\* returns it unchanged.
C11_CleanIdempotent ==
    Len(aout) >= 2 => aout[2] = aout[1]

-----------------------------------------------------------------------------
(* More properties of extract_useful_output *)

\* the text of s after its first n characters
Rest(s, n) == SubSeq(s, n + 1, Len(s))

\* the for loop is about to read lines[idx + 1]
AtLine == xpc = "loop" /\ idx < Len(lines)

ClosedByHand == IF current_section = NoSection THEN sections ELSE Append(sections, current_section)

\* C12 (as claimed): a line that begins with "Thought:" (resp. "Observation:")
\* closes the open section and opens a thought (resp. observation) section
\* whose first content item is the remainder of the line, whatever else the
\* line contains.
C12_HeaderAlwaysOpens ==
    [][ AtLine =>
          LET l == lines[idx + 1]
          IN  /\ StartsWith(l, "Thought:") =>
                    /\ current_section' = Section("thought", <<Strip(Rest(l, Len("Thought:")))>>)
                    /\ sections' = ClosedByHand
              /\ StartsWith(l, "Observation:") =>
                    /\ current_section'
                         = Section("observation", <<Strip(Rest(l, Len("Observation:")))>>)
                    /\ sections' = ClosedByHand ]_vars

\* every section collected so far, the open one included
AllSections == ClosedByHand

\* C13 (as claimed): the content of a code section never holds a line that
\* contains a fence marker or the <end_code> sentinel.
C13_NoFenceInCode ==
    \A k \in DOMAIN AllSections :
        AllSections[k].type = "code" =>
            \A j \in DOMAIN AllSections[k].content :
                /\ ~Contains(AllSections[k].content[j], Fence)
                /\ ~Contains(AllSections[k].content[j], "<end_code>")

\* lines of LineChoices that are not blank, are no header, banner or separator,
\* are not made of box-drawing characters only and do not start with "["
OrdinaryLines == { "x=1", "  note  ", "? total 5 ?" }

\* C14 (as claimed): while a section is open, an ordinary line is appended to
\* its content (as it is, or stripped).
C14_OrdinaryLineAppended ==
    [][ (AtLine /\ current_section # NoSection /\ lines[idx + 1] \in OrdinaryLines) =>
          /\ current_section'.type = current_section.type
          /\ current_section'.content
                \in { Append(current_section.content, lines[idx + 1]),
                      Append(current_section.content, Strip(lines[idx + 1])) } ]_vars

\* the place of the first header line read so far, idx + 1 when there is none
FirstHeader ==
    LET at == { i \in 1..idx : lines[i] \in DOMAIN HeaderTypeOf }
    IN  IF at = {} THEN idx + 1 ELSE CHOOSE i \in at : \A j \in at : i <= j

\* the content a section got from the lines after its header
Appended(sec) ==
    IF sec.type \in {"code", "execution"} \/ sec.content = <<>>
    THEN sec.content ELSE Tail(sec.content)

\* C15: nothing is collected before the first header line: until one is read
\* there is no section, so a transcript without a header yields no section;
\* and what a section holds comes from lines after the first header.
C15_NothingBeforeFirstHeader ==
    xpc \in {"loop", "done"} =>
        /\ FirstHeader = idx + 1 => sections = <<>> /\ current_section = NoSection
        /\ \A k \in DOMAIN AllSections :
            \A j \in DOMAIN Appended(AllSections[k]) :
                \E i \in (FirstHeader + 1)..idx :
                    Appended(AllSections[k])[j] \in { lines[i], Strip(lines[i]) }

C15_Witness ==
    /\ xpc = "done"
    /\ lines = << "x=1", "", "Thought: plan", "? total 5 ?", "  note  ", "Code:" >>
    /\ sections = << Section("thought", <<"plan", "note">>), Section("code", <<>>) >>

\* C16 (as claimed): no section of any kind holds a line that starts with "[".
C16_BracketLinesDropped ==
    \A k \in DOMAIN AllSections :
        \A j \in DOMAIN Appended(AllSections[k]) :
            ~StartsWith(Strip(Appended(AllSections[k])[j]), "[")

\* C16 (amended): a line that starts with "[" is dropped from the content of
\* the open section unless that section is a code section; a code section
\* keeps the line.
C16_BracketLinesDroppedOutsideCode ==
    /\ \A k \in DOMAIN AllSections :
        AllSections[k].type # "code" =>
            \A j \in DOMAIN Appended(AllSections[k]) :
                ~StartsWith(Strip(Appended(AllSections[k])[j]), "[")
    /\ (/\ xpc = "loop"
        /\ idx >= 1
        /\ lines[idx] = "[1, 2]"
        /\ current_section.type = "code") =>
            /\ current_section.content # <<>>
            /\ current_section.content[Len(current_section.content)] = "[1, 2]"

C16_Witness ==
    /\ xpc = "done"
    /\ sections = << Section("code", <<"[1, 2]">>), Section("observation", <<"ok">>) >>
    /\ lines[Len(lines)] = "[1, 2]"

\* how many of the lines read so far are header lines
HeadersRead == Cardinality({ i \in 1..idx : lines[i] \in DOMAIN HeaderTypeOf })

\* C17: every header line opens one section and none is lost: while the loop
\* runs, the closed sections and the open one are as many as the header lines
\* read; the returned sections are as many as the header lines of the
\* transcript, and the last opened section is the last of them, empty or not.
C17_EverySectionFlushed ==
    /\ xpc = "loop" =>
        Len(sections) + (IF current_section = NoSection THEN 0 ELSE 1) = HeadersRead
    /\ xpc = "done" =>
        /\ Len(sections) = HeadersRead
        /\ current_section # NoSection => sections[Len(sections)] = current_section

C17_Witness ==
    /\ xpc = "done"
    /\ lines = << "Thought: plan", "Code:" >>
    /\ Len(sections) = 2
    /\ sections[2] = Section("code", <<>>)

-----------------------------------------------------------------------------
(* More properties of GeminiModel.__call__ *)

\* the answers taken for a rate limit whose error text carries no hint the
\* code reads
HintlessRateLimit == TakenForRateLimit \ { Raises(e) : e \in DOMAIN HintOf }

\* retry_delay * 2^a
Exponential(a) == Dur(retry_delay.num * 2^a, retry_delay.den)

\* C18: the sleep that follows a rate-limit error without hint caught at
\* attempt a (from 0) lasts retry_delay * 2^a, whatever the earlier attempts
\* of the call carried.
C18_HintlessDelayIsExponential ==
    /\ \A i \in SleepIdx :
        log[i].answer \in HintlessRateLimit => DurEq(log[i].d, Exponential(log[i].att))
    /\ (pc = "sleep" /\ LastAnswer \in HintlessRateLimit) => DurEq(delay, Exponential(attempt))

C18_Witness ==
    /\ pc = "sleep"
    /\ attempt = 1
    /\ retry_delay = Dur(2, 1)
    /\ log[1].answer = Raises("429 Too Many Requests: Retry in 30 seconds")
    /\ DurEq(log[2].d, Dur(30, 1))
    /\ LastAnswer = Raises("429 Resource exhausted")
    /\ DurEq(delay, Dur(4, 1))

\* the exceptions lines 144, 146 and 148 raise
NoTextFailures ==
    { Exc("Response candidate has no parts", "gemini.py:144"),
      Exc("Response candidate has no content", "gemini.py:146"),
      Exc("No valid response candidates", "gemini.py:148") }

\* C19 (as claimed): a response with a candidate ends the call: with the text
\* of .text; when reading .text raises ValueError or AttributeError, with the
\* text of the first part; and when there is no content, no part or no text
\* in the part, with a failure that is raised at once, never with a message
\* whose text is empty.
C19_TextOrTerminalFailure ==
    \A i \in CallIdx :
        LET r == log[i].answer
        IN  (/\ r.kind = "resp" /\ r.ncand > 0
             /\ r.text_mode \in {"ok", "ValueError", "AttributeError"}
             /\ (i < Len(log) \/ pc = "done")) =>
                /\ EndsCallAt(i)
                /\ r.text_mode = "ok" => result = Returned(r.text)
                /\ (r.text_mode # "ok" /\ r.cand = "parts" /\ r.part_text # "") =>
                        result = Returned(r.part_text)
                /\ (r.text_mode # "ok" /\ (r.cand # "parts" \/ r.part_text = "")) =>
                        result.kind = "raise" /\ result.exc \in NoTextFailures

\* C20: __call__ ends by a return or a raise; it raises "Failed after
\* <max_retries> attempts" exactly when max_retries <= 0, and then without
\* remote call and without sleep.
C20_FallthroughOnlyWithoutAttempts ==
    pc = "done" =>
        /\ result.kind \in {"return", "raise"}
        /\ result.kind = "return" => result.role = "assistant"
        /\ (result.kind = "raise" /\ result.exc.origin = "gemini.py:181") <=> max_retries <= 0
        /\ max_retries <= 0 =>
            /\ result = Raised(Exc("Failed after " \o ToString(max_retries) \o " attempts",
                                   "gemini.py:181"))
            /\ log = <<>>

C20_Witness ==
    /\ pc = "done"
    /\ max_retries = 0
    /\ log = <<>>
    /\ result.kind = "raise"
    /\ result.exc.msg = "Failed after 0 attempts"

-----------------------------------------------------------------------------
(* rag_tool: the global document store, load_documents_from_directory and *)
(* search_knowledge_base                                                   *)

\* s.split(): the runs of characters between white space, in order
RECURSIVE WordsFrom(_, _)
WordsFrom(s, acc) ==
    IF s = "" THEN (IF acc = "" THEN <<>> ELSE <<acc>>)
    ELSE IF IsSpace(Char(s, 1))
         THEN (IF acc = "" THEN <<>> ELSE <<acc>>) \o WordsFrom(Tail(s), "")
         ELSE WordsFrom(Tail(s), acc \o Char(s, 1))

\* line 107: set(query.lower().split())
query_words(query) ==
    LET ws == WordsFrom(Lower(query), "") IN { ws[i] : i \in DOMAIN ws }

\* lines.index(line), counted from 0
IndexOf(ls, line) == (CHOOSE i \in DOMAIN ls : ls[i] = line /\ \A j \in 1..(i - 1) : ls[j] # line) - 1

Max(a, b) == IF a >= b THEN a ELSE b
Min(a, b) == IF a <= b THEN a ELSE b

\* lines 118-132: the sections the lines of one document from place i on add
RECURSIVE DocSections(_, _, _, _)
DocSections(doc, ls, words, i) ==
    IF i > Len(ls) THEN <<>>
    ELSE LET line_lower == Lower(ls[i])
             hits == { w \in words : Contains(line_lower, w) }
             start_idx == Max(0, IndexOf(ls, ls[i]) - 2)
             end_idx == Min(Len(ls), IndexOf(ls, ls[i]) + 3)
             context == Join("\n", SubSeq(ls, start_idx + 1, end_idx))
         IN  (IF hits # {}
              THEN << [source |-> doc.name, content |-> context,
                       relevance |-> Cardinality(hits)] >>
              ELSE <<>>)
             \o DocSections(doc, ls, words, i + 1)

\* lines 112-132: relevant_sections over the whole store
RECURSIVE RelevantSections(_, _)
RelevantSections(docs, words) ==
    IF docs = <<>> THEN <<>>
    ELSE DocSections(Head(docs), Split(Head(docs).content, "\n"), words, 1)
         \o RelevantSections(Tail(docs), words)

\* line 140: sort(key=relevance, reverse=True), equal keys keep their order
RECURSIVE SortedFrom(_, _)
SortedFrom(secs, r) ==
    IF r = 0 THEN <<>>
    ELSE SelectSeq(secs, LAMBDA x : x.relevance = r) \o SortedFrom(secs, r - 1)

SortByRelevance(secs, words) == SortedFrom(secs, Cardinality(words))

\* line 146
SectionText(section) == "\n[From " \o section.source \o "]\n" \o section.content \o "\n"

\* lines 145-152: the section texts appended before the budget is used up
RECURSIVE TakeSections(_, _, _)
TakeSections(secs, total_chars, max_chars) ==
    IF secs = <<>> \/ total_chars + Len(SectionText(Head(secs))) > max_chars THEN ""
    ELSE SectionText(Head(secs))
         \o TakeSections(Tail(secs), total_chars + Len(SectionText(Head(secs))), max_chars)

\* line 136
RECURSIVE DocList(_)
DocList(docs) ==
    IF docs = <<>> THEN ""
    ELSE Head(docs).name \o " (" \o ToString(Head(docs).pages) \o " pages)"
         \o (IF Len(docs) > 1 THEN ", " ELSE "") \o DocList(Tail(docs))

NoDocumentsMessage ==
    "No documents loaded in knowledge base. Please load PDF documents first."

\* lines 102-154
search_knowledge_base(docs, query, max_chars) ==
    IF docs = <<>> THEN NoDocumentsMessage
    ELSE LET words == query_words(query)
             relevant_sections == RelevantSections(docs, words)
             sorted == SortByRelevance(relevant_sections, words)
         IN  IF relevant_sections = <<>>
             THEN "No specific matches found for '" \o query \o "'. Available documents: "
                  \o DocList(docs)
             ELSE "Found " \o ToString(Len(relevant_sections)) \o " relevant sections:\n"
                  \o TakeSections(SubSeq(sorted, 1, Min(10, Len(sorted))), 0, max_chars)

\* a PDF file: its directory, its name, the text of its pages, and whether
\* PdfReader and extract_text succeed on it
PdfFile(dir, name, pages, ok) == [dir |-> dir, name |-> name, pages |-> pages, ok |-> ok]

\* os.path.join(pdf_dir, name)
PathOf(f) == f.dir \o "/" \o f.name

\* the directories that exist, and the arguments load_documents_from_directory gets
DirsOnDisk == { "./pdfs", "./more" }
PdfDirs == DirsOnDisk \cup { "./missing" }

InitialFiles == {
    PdfFile("./pdfs", "qcd.pdf", << "quark gluon\nplasma", "the Quark" >>, TRUE),
    PdfFile("./pdfs", "bad.pdf", <<>>, FALSE),
    PdfFile("./more", "qcd.pdf", << "lattice" >>, TRUE),
    PdfFile("./more", "qed.pdf", << "photon" >>, TRUE) }

\* files that appear on disk later
LaterFiles == { PdfFile("./pdfs", "new.pdf", << "muon\n\nquark", "" >>, TRUE) }

\* lines 48-51
RECURSIVE TextContent(_)
TextContent(pages) ==
    IF pages = <<>> THEN "" ELSE Head(pages) \o "\n" \o TextContent(Tail(pages))

\* lines 54-59
Document(f) ==
    [name |-> f.name, content |-> TextContent(f.pages), path |-> PathOf(f),
     pages |-> Len(f.pages)]

\* any(d["name"] == filename for d in _DOCUMENT_STORE)
AlreadyLoaded(docs, filename) == \E i \in DOMAIN docs : docs[i].name = filename

\* LoadFiles without the test of line 43
RECURSIVE LoadFilesNoCheck(_, _, _)
LoadFilesNoCheck(docs, pdf_files, loaded_count) ==
    IF pdf_files = <<>> THEN [store |-> docs, loaded_count |-> loaded_count]
    ELSE LET f == Head(pdf_files)
         IN  IF ~f.ok
             THEN LoadFilesNoCheck(docs, Tail(pdf_files), loaded_count)
             ELSE LoadFilesNoCheck(Append(docs, Document(f)), Tail(pdf_files), loaded_count + 1)

\* lines 39-66: the loop over pdf_files
RECURSIVE LoadFiles(_, _, _)
LoadFiles(docs, pdf_files, loaded_count) ==
    IF pdf_files = <<>> THEN [store |-> docs, loaded_count |-> loaded_count]
    ELSE LET f == Head(pdf_files)
         IN  IF AlreadyLoaded(docs, f.name) \/ ~f.ok
             THEN LoadFiles(docs, Tail(pdf_files), loaded_count)
             ELSE LoadFiles(Append(docs, Document(f)), Tail(pdf_files), loaded_count + 1)

\* the orders glob.glob may list a set of files in
Orders(fs) ==
    { q \in [1..Cardinality(fs) -> fs] : \A i, j \in DOMAIN q : i # j => q[i] # q[j] }

QueryChoices == { "", "quark", "Quark gluon", "muon" }
MaxCharsChoices == { 0, 30, 8000 }

RInit ==
    /\ store = <<>>
    /\ disk = InitialFiles
    /\ rlast = NoCall
    /\ fresh = {}

\* load_documents_from_directory(pdf_dir), glob listing the files as pdf_files
Load(pdf_dir, pdf_files) ==
    /\ LET out == IF pdf_dir \notin DirsOnDisk
                  THEN [store |-> store, loaded_count |-> 0]
                  ELSE LoadFiles(store, pdf_files, 0)
       IN  /\ store' = out.store
           /\ rlast' = [op |-> "load", pdf_dir |-> pdf_dir, returned |-> out.loaded_count,
                        before |-> store, unchanged |-> pdf_dir \in fresh]
    /\ fresh' = fresh \cup { pdf_dir }
    /\ UNCHANGED <<disk, nonr>>

\* search_knowledge_base(query, max_chars)
Search(query, max_chars) ==
    /\ rlast' = [op |-> "search", query |-> query, max_chars |-> max_chars,
                 returned |-> search_knowledge_base(store, query, max_chars)]
    /\ UNCHANGED <<store, disk, fresh, nonr>>

\* a file is put into a directory
AddFile(f) ==
    /\ f \notin disk
    /\ disk' = disk \cup { f }
    /\ fresh' = fresh \ { f.dir }
    /\ UNCHANGED <<store, rlast, nonr>>

InitRag == RInit /\ GIdle /\ FIdle /\ XIdle /\ AIdle /\ UIdle /\ KIdle /\ TIdle /\ CIdle

NextRag ==
    \/ \E d \in PdfDirs : \E q \in Orders({ f \in disk : f.dir = d }) : Load(d, q)
    \/ \E query \in QueryChoices : \E m \in MaxCharsChoices : Search(query, m)
    \/ \E f \in LaterFiles : AddFile(f)

SpecRag == InitRag /\ [][NextRag]_vars

\* C21 (as claimed): what search_knowledge_base returns is never longer than
\* max_chars.
C21_ResultWithinMaxChars ==
    rlast.op = "search" => Len(rlast.returned) <= rlast.max_chars

\* C27: the store never holds two documents of one file name and never
\* shrinks; a load returns the number of documents it appended; loading a
\* directory again that did not change since its last load returns 0 and
\* leaves the store as it was.
C27_StoreGrowsWithoutDuplicates ==
    /\ [](\A i, j \in DOMAIN store : store[i].name = store[j].name => i = j)
    /\ [](rlast.op = "load" =>
            /\ Len(store) = Len(rlast.before) + rlast.returned
            /\ SubSeq(store, 1, Len(rlast.before)) = rlast.before
            /\ rlast.unchanged => rlast.returned = 0 /\ store = rlast.before)
    /\ [][Len(store') >= Len(store)]_vars

C27_Witness ==
    /\ rlast.op = "load"
    /\ rlast.pdf_dir = "./more"
    /\ rlast.unchanged
    /\ rlast.returned = 0
    /\ Len(store) = 3
    /\ \E i \in DOMAIN store : store[i].path = "./pdfs/qcd.pdf"

-----------------------------------------------------------------------------
(* gui/app.py: the chat column processing one prompt *)

MaxPrompts == 2

ChatMessage(role, content) == [role |-> role, content |-> content]
Display(kind, body) == [kind |-> kind, text |-> body]

\* str(e) of the exceptions a failed agent run hands to the chat column: the
\* failures GeminiModel raises itself, errors it re-raises, and errors of
\* other origin
UiErrors ==
    { ExhaustedExc(n).msg : n \in 1..MaxRetries }
    \cup { FallthroughExc(0).msg,
           BlockedExc(Blocked("reason", "SAFETY")).msg,
           "500 Internal error",
           "QUOTA exhausted for project",
           "Rate-limit hit",
           "429 Too Many Requests",
           "Failed to generate content",
           "division by zero",
           "" }

Responses == { "The muon mass is 105.7 MeV", "" }

\* the test of line 323
UiHintTest(error_msg) ==
    Contains(Lower(error_msg), "rate") \/ Contains(Lower(error_msg), "quota")

\* UiHintTest on the text as it is, without lower()
UiHintTestCaseSensitive(error_msg) ==
    Contains(error_msg, "rate") \/ Contains(error_msg, "quota")

\* lines 318-327 with UiHintTestCaseSensitive in place of the test of line 323
ErrorDisplaysCaseSensitive(error_msg) ==
    << Display("error", "[x] Error: " \o error_msg) >>
    \o (IF UiHintTestCaseSensitive(error_msg)
        THEN << Display("warning", "[!] Rate limit reached. Please wait and try again."),
                Display("info",
                        "[i] Tip: Use a less complex query or wait a minute between requests.") >>
        ELSE <<>>)

\* lines 318-325: what the except clause displays for str(e) = error_msg
ErrorDisplays(error_msg) ==
    << Display("error", "[x] Error: " \o error_msg) >>
    \o (IF UiHintTest(error_msg)
        THEN << Display("warning", "[!] Rate limit reached. Please wait and try again."),
                Display("info",
                        "[i] Tip: Use a less complex query or wait a minute between requests.") >>
        ELSE <<>>)

UInit ==
    /\ chat = <<>>
    /\ shown = <<>>
    /\ upc = "idle"
    /\ ulast = NoCall

\* lines 200-207: a prompt typed into the chat input
Ask(p) ==
    /\ upc = "idle"
    /\ Cardinality({ i \in DOMAIN chat : chat[i].role = "user" }) < MaxPrompts
    /\ chat' = Append(chat, ChatMessage("user", p))
    /\ shown' = Append(shown, Display("markdown", p))
    /\ upc' = "processing"
    /\ UNCHANGED <<ulast, nonu>>

\* lines 228-229 and 315-316: the agent run returns response
RunReturns(response) ==
    /\ upc = "processing"
    /\ shown' = Append(shown, Display("markdown", response))
    /\ chat' = Append(chat, ChatMessage("assistant", response))
    /\ upc' = "idle"
    /\ ulast' = [op |-> "return", response |-> response]
    /\ UNCHANGED nonu

\* lines 318-327: the agent run raises an exception e with str(e) = error_msg
RunFails(error_msg) ==
    /\ upc = "processing"
    /\ shown' = shown \o ErrorDisplays(error_msg)
    /\ chat' = Append(chat, ChatMessage("assistant", "Error: " \o error_msg))
    /\ upc' = "idle"
    /\ ulast' = [op |-> "raise", error_msg |-> error_msg]
    /\ UNCHANGED nonu

InitUi == UInit /\ GIdle /\ FIdle /\ XIdle /\ AIdle /\ RIdle /\ KIdle /\ TIdle /\ CIdle

NextUi ==
    \/ \E p \in { "muon mass?", "plot quarks" } : Ask(p)
    \/ \E r \in Responses : RunReturns(r)
    \/ \E e \in UiErrors : RunFails(e)

SpecUi == InitUi /\ [][NextUi]_vars

\* the messages of UiErrors that speak of a rate limit or a quota, written out
RateOrQuotaPhrased ==
    { "Rate limit exceeded after 1 attempts. Please wait before retrying.",
      "Rate limit exceeded after 2 attempts. Please wait before retrying.",
      "Rate limit exceeded after 3 attempts. Please wait before retrying.",
      "Rate limit exceeded after 4 attempts. Please wait before retrying.",
      "QUOTA exhausted for project",
      "Rate-limit hit" }

WaitHint == Display("warning", "[!] Rate limit reached. Please wait and try again.")

\* C22: a failed run displays the error message and appends the assistant
\* message "Error: <message>" to the chat; when the message is the adapter's
\* "Rate limit exceeded ..." failure or speaks of a rate limit or quota, the
\* hint to wait is displayed right after the error.
C22_FailureShownAndHinted ==
    (upc = "idle" /\ ulast.op = "raise") =>
        /\ chat[Len(chat)] = ChatMessage("assistant", "Error: " \o ulast.error_msg)
        /\ \E k \in DOMAIN shown :
            /\ shown[k] = Display("error", "[x] Error: " \o ulast.error_msg)
            /\ \A j \in (k + 1)..Len(shown) : shown[j].kind \in {"warning", "info"}
            /\ ulast.error_msg \in RateOrQuotaPhrased =>
                    k < Len(shown) /\ shown[k + 1] = WaitHint

C22_Witness ==
    /\ upc = "idle"
    /\ ulast.op = "raise"
    /\ ulast.error_msg = "Rate limit exceeded after 3 attempts. Please wait before retrying."
    /\ Len(chat) = 4
    /\ chat[2].content = "Error: division by zero"
    /\ chat[4].content
         = "Error: Rate limit exceeded after 3 attempts. Please wait before retrying."
    /\ shown[Len(shown) - 1] = WaitHint

-----------------------------------------------------------------------------
(* Order and number of the remote calls and sleeps of one __call__ *)

\* C23: remote calls and sleeps alternate, starting with a call; a sleep is
\* under way only after a call and is followed by a new call, never by the end
\* of __call__; when __call__ has ended after a call, it slept once less than
\* it called.
C23_CallsAndSleepsAlternate ==
    /\ log # <<>> => log[1].ev = "call"
    /\ \A i \in 1..(Len(log) - 1) : log[i].ev # log[i + 1].ev
    /\ pc = "sleep" => log # <<>> /\ log[Len(log)].ev = "call"
    /\ pc = "attempt" => log = <<>> \/ log[Len(log)].ev = "sleep"
    /\ (pc = "done" /\ log # <<>>) =>
        /\ log[Len(log)].ev = "call"
        /\ NSleeps = NCalls - 1

C23_Witness ==
    /\ pc = "done"
    /\ Len(log) = 5
    /\ log[2].ev = "sleep"
    /\ log[4].ev = "sleep"
    /\ log[5].answer = Fallback("ValueError", "parts", "from part")
    /\ result = Returned("from part")

\* C24: a __call__ under way ends, by a return or a raise, and by then it has
\* made at most max_retries remote calls and max_retries - 1 sleeps (none of
\* either when max_retries is below 1), whatever the provider answers.
C24_CallTerminatesWithinBounds ==
    /\ [](/\ NCalls <= Max(max_retries, 0)
          /\ NSleeps + (IF pc = "sleep" THEN 1 ELSE 0) <= Max(max_retries - 1, 0))
    /\ (pc \in {"attempt", "sleep"}) ~> (pc = "done" /\ result.kind \in {"return", "raise"})

C24_Witness ==
    /\ pc = "done"
    /\ max_retries = 3
    /\ NCalls = 3
    /\ NSleeps = 2
    /\ log[1].answer = Blocked("reason", "MODERATE_RISK")
    /\ log[3].answer = TextRaises("429 quota")
    /\ result.kind = "raise"

-----------------------------------------------------------------------------
(* StreamlitCodeAgent.run: the capture of stdout and stderr around the run *)

MaxRuns == 2
MaxChunks == 2

\* the for loop of extract_useful_output over all lines
RECURSIVE FoldLines(_, _)
FoldLines(st, ls) == IF ls = <<>> THEN st ELSE FoldLines(LineStep(st, Head(ls)), Tail(ls))

\* lines 37-114 as a function of the text
extract_useful_output(t) ==
    LET st == FoldLines(Locals(<<>>, NoSection, FALSE), Split(t, "\n"))
    IN  Closed(st.sections, st.current_section)

\* what the agent and the tools print during a run
Chunks == {
    Esc \o "[1mThought: plan" \o Esc \o "[0m\n",
    "Code:\n" \o FencePy \o "\nx=1\n" \o Fence \o "\n",
    "^~~~@\n",
    "Final answer: 42\n" }

\* the StringIO created by the n-th run
BufferOf(n) == "captured_output " \o ToString(n)

\* StoreCaptured handing the raw text to extract_useful_output
StoreCapturedUncleaned(out, output_text) ==
    IF output_text # "" /\ extract_useful_output(output_text) # <<>>
    THEN Append(out, extract_useful_output(output_text))
    ELSE out

\* lines 154-162 and 174-182: session_state.agent_output after the captured
\* text is stored
StoreCaptured(out, output_text) ==
    IF output_text # "" /\ extract_useful_output(clean_ansi_codes(output_text)) # <<>>
    THEN Append(out, extract_useful_output(clean_ansi_codes(output_text)))
    ELSE out

KInit ==
    /\ sys_stdout = "stdout"
    /\ sys_stderr = "stderr"
    /\ old_stdout = "stdout"
    /\ old_stderr = "stderr"
    /\ captured = ""
    /\ agent_output = <<>>
    /\ kpc = "idle"
    /\ runs = 0

\* lines 116-145: run up to the call of super().run
StartRun ==
    /\ kpc \in {"idle", "returned", "raised", "interrupted"}
    /\ runs < MaxRuns
    /\ runs' = runs + 1
    /\ agent_output' = <<>>
    /\ old_stdout' = sys_stdout
    /\ old_stderr' = sys_stderr
    /\ captured' = ""
    /\ sys_stdout' = BufferOf(runs + 1)
    /\ sys_stderr' = BufferOf(runs + 1)
    /\ kpc' = "running"
    /\ UNCHANGED nonk

\* super().run prints to sys.stdout or sys.stderr
Emit(chunk) ==
    /\ kpc = "running"
    /\ captured \in { Join("", q) : q \in SeqsUpTo(Chunks, MaxChunks - 1) }
    /\ captured' = captured \o chunk
    /\ UNCHANGED <<sys_stdout, sys_stderr, old_stdout, old_stderr, agent_output, kpc, runs, nonk>>

\* lines 147-166: super().run returns
AgentReturns ==
    /\ kpc = "running"
    /\ sys_stdout' = old_stdout
    /\ sys_stderr' = old_stderr
    /\ agent_output' = StoreCaptured(agent_output, captured)
    /\ kpc' = "returned"
    /\ UNCHANGED <<old_stdout, old_stderr, captured, runs, nonk>>

\* lines 168-186: super().run raises; the except clause catches the Exception
\* family only, a KeyboardInterrupt or SystemExit leaves run at once
AgentRaises(exc) ==
    /\ kpc = "running"
    /\ IF exc = "Exception"
       THEN /\ sys_stdout' = old_stdout
            /\ sys_stderr' = old_stderr
            /\ agent_output' = StoreCaptured(agent_output, captured)
            /\ kpc' = "raised"
       ELSE /\ kpc' = "interrupted"
            /\ UNCHANGED <<sys_stdout, sys_stderr, agent_output>>
    /\ UNCHANGED <<old_stdout, old_stderr, captured, runs, nonk>>

InitRun == KInit /\ GIdle /\ FIdle /\ XIdle /\ AIdle /\ RIdle /\ UIdle /\ TIdle /\ CIdle

NextRun ==
    \/ StartRun
    \/ \E c \in Chunks : Emit(c)
    \/ AgentReturns
    \/ \E exc \in {"Exception", "KeyboardInterrupt", "SystemExit"} : AgentRaises(exc)

SpecRun == InitRun /\ [][NextRun]_vars

\* a run has ended
RunEnded == kpc \in {"returned", "raised", "interrupted"}

\* C25: while a run is under way agent_output holds nothing of the run
\* before; after a run agent_output has at most one entry, and an entry is
\* extract_useful_output of the ANSI-stripped captured text; a run that
\* returned and a run that raised an Exception both stored that entry when
\* the text has sections.
C25_OutputOfThisRunOnly ==
    /\ kpc = "running" => agent_output = <<>>
    /\ RunEnded =>
        /\ Len(agent_output) <= 1
        /\ \A i \in DOMAIN agent_output :
            agent_output[i] = extract_useful_output(clean_ansi_codes(captured))
    /\ kpc \in {"returned", "raised"} =>
        (Len(agent_output) = 1 <=> extract_useful_output(clean_ansi_codes(captured)) # <<>>)

C25_Witness ==
    /\ kpc = "raised"
    /\ runs = 2
    /\ captured = Esc \o "[1mThought: plan" \o Esc \o "[0m\n" \o "Final answer: 42\n"
    /\ agent_output = << << Section("thought", <<"plan">>), Section("final", <<"42">>) >> >>

\* C26 (as claimed): when run has ended, by a return, an Exception or any
\* other raised interruption, sys.stdout and sys.stderr are what they were
\* before the call.
C26_StreamsRestored ==
    RunEnded => sys_stdout = old_stdout /\ sys_stderr = old_stderr

-----------------------------------------------------------------------------
(* ExperimentTracker *)

MaxTrackerCalls == 3
MaxClock == 1

\* s.endswith(p)
EndsWith(s, p) == Len(s) >= Len(p) /\ SubSeq(s, Len(s) - Len(p) + 1, Len(s)) = p

\* c.isalnum() for the characters used here
IsAlnum(c) == IsDigit(c) \/ IsLetter(c)

\* line 39
RECURSIVE Sanitize(_)
Sanitize(d) ==
    IF d = "" THEN ""
    ELSE (IF IsAlnum(Char(d, 1)) \/ Char(d, 1) \in {"-", "_"} THEN Char(d, 1) ELSE "_")
         \o Sanitize(Tail(d))

\* line 34: strftime("%Y-%m-%d_%H-%M-%S") of the clock
Timestamp(t) == "2025-01-01_00-00-0" \o ToString(t)

\* isoformat() of the clock
IsoTime(t) == "2025-01-01T00:00:0" \o ToString(t)

\* lines 37-45
ExperimentDir(t, description) ==
    "experiments/"
    \o (IF description # ""
        THEN Timestamp(t) \o "_" \o SubSeq(Sanitize(description), 1,
                                           Min(50, Len(Sanitize(description))))
        ELSE Timestamp(t))

\* f"{n:02d}"
TwoDigits(n) == IF n < 10 THEN "0" \o ToString(n) ELSE ToString(n)

\* the content of a file: text, a JSON object, or a JSON text cut short
TextFile(body) == [kind |-> "text", text |-> body, data |-> <<>>]
JsonFile(dict) == [kind |-> "json", text |-> "", data |-> dict]
BrokenJson(dict) == [kind |-> "broken", text |-> "", data |-> dict]

\* open(path, "w") and write
WriteFile(fs, path, content) ==
    [ p \in DOMAIN fs \cup { path } |-> IF p = path THEN content ELSE fs[p] ]

\* a Python value handed to save_metadata: its text and whether json.dump takes it
PyValue(repr, ok) == [repr |-> repr, serializable |-> ok]

\* lines 146-160: [files, raised] after save_metadata(key, value) in directory dir
SaveMetadata(fs, dir, key, value) ==
    LET metadata_path == dir \o "/metadata.json"
        exists == metadata_path \in DOMAIN fs
    IN  IF exists /\ fs[metadata_path].kind # "json"
        THEN [files |-> fs, raised |-> "JSONDecodeError"]
        ELSE LET metadata == IF exists THEN fs[metadata_path].data ELSE <<>>
                 updated == [ k \in DOMAIN metadata \cup { key } |->
                                IF k = key THEN value.repr ELSE metadata[k] ]
             IN  IF value.serializable
                 THEN [files |-> WriteFile(fs, metadata_path, JsonFile(updated)),
                       raised |-> ""]
                 ELSE [files |-> WriteFile(fs, metadata_path, BrokenJson(metadata)),
                       raised |-> "TypeError"]

\* line 117: the files of dir that match plot_*.png
ExistingPlots(fs, dir) ==
    { p \in DOMAIN fs :
        /\ StartsWith(p, dir \o "/plot_")
        /\ EndsWith(p, ".png")
        /\ Len(p) >= Len(dir) + Len("/plot_.png") }

\* lines 115-121: the path save_plot writes, filename "" for None
PlotPath(fs, dir, filename) ==
    dir \o "/" \o (IF filename = ""
                   THEN "plot_" \o TwoDigits(Cardinality(ExistingPlots(fs, dir)) + 1) \o ".png"
                   ELSE filename)

\* lines 132-133: [files, overwritten] after save_plot(plot_data) for each of plots
RECURSIVE SavePlots(_, _, _, _)
SavePlots(fs, dir, plots, overwritten) ==
    IF plots = <<>> THEN [files |-> fs, overwritten |-> overwritten]
    ELSE LET path == PlotPath(fs, dir, "")
         IN  SavePlots(WriteFile(fs, path, TextFile(Head(plots))), dir, Tail(plots),
                       overwritten \cup (IF path \in DOMAIN fs THEN { path } ELSE {}))

\* lines 85-87
RECURSIVE SaveCodes(_, _, _, _)
SaveCodes(fs, dir, codes, i) ==
    IF codes = <<>> THEN fs
    ELSE SaveCodes(WriteFile(fs, dir \o "/code_block_" \o TwoDigits(i) \o ".py",
                             TextFile(Head(codes))),
                   dir, Tail(codes), i + 1)

\* what a call met and did
TrackerCall(op, raised, overwritten, returned) ==
    [op |-> op, active |-> current_experiment_dir # "", dir |-> current_experiment_dir,
     before |-> files, raised |-> raised, overwritten |-> overwritten, returned |-> returned]

TInit ==
    /\ current_experiment_dir = ""
    /\ files = <<>>
    /\ clock \in 0..MaxClock
    /\ tlast = NoCall
    /\ tcalls = 0

Called ==
    /\ tcalls < MaxTrackerCalls
    /\ tcalls' = tcalls + 1
    /\ UNCHANGED nont

\* time passes
Tick ==
    /\ clock < MaxClock
    /\ clock' = clock + 1
    /\ UNCHANGED <<current_experiment_dir, files, tlast, tcalls, nont>>

\* lines 24-58
start_experiment(description) ==
    /\ Called
    /\ LET dir == ExperimentDir(clock, description)
       IN  /\ current_experiment_dir' = dir
           /\ files' = WriteFile(files, dir \o "/metadata.json",
                                 JsonFile([ k \in {"timestamp", "description", "start_time"} |->
                                            CASE k = "timestamp" -> Timestamp(clock)
                                              [] k = "description" -> description
                                              [] OTHER -> IsoTime(clock) ]))
           /\ tlast' = TrackerCall("start_experiment", "", {}, dir)
    /\ UNCHANGED clock

\* lines 60-73 and 89-102: save_code and save_output
save_text(op, body, filename) ==
    /\ Called
    /\ files' = IF current_experiment_dir = "" THEN files
                ELSE WriteFile(files, current_experiment_dir \o "/" \o filename, TextFile(body))
    /\ tlast' = TrackerCall(op, "", {}, "")
    /\ UNCHANGED <<current_experiment_dir, clock>>

\* lines 75-87
save_codes(codes) ==
    /\ Called
    /\ files' = IF current_experiment_dir = "" THEN files
                ELSE SaveCodes(files, current_experiment_dir, codes, 1)
    /\ tlast' = TrackerCall("save_codes", "", {}, "")
    /\ UNCHANGED <<current_experiment_dir, clock>>

\* lines 104-123
save_plot(plot_data, filename) ==
    /\ Called
    /\ LET path == PlotPath(files, current_experiment_dir, filename)
       IN  IF current_experiment_dir = ""
           THEN files' = files /\ tlast' = TrackerCall("save_plot", "", {}, "")
           ELSE /\ files' = WriteFile(files, path, TextFile(plot_data))
                /\ tlast' = TrackerCall("save_plot", "",
                                        IF filename = "" /\ path \in DOMAIN files
                                        THEN { path } ELSE {},
                                        path)
    /\ UNCHANGED <<current_experiment_dir, clock>>

\* lines 125-133
save_plots(plots) ==
    /\ Called
    /\ LET out == IF current_experiment_dir = ""
                  THEN [files |-> files, overwritten |-> {}]
                  ELSE SavePlots(files, current_experiment_dir, plots, {})
       IN  /\ files' = out.files
           /\ tlast' = TrackerCall("save_plots", "", out.overwritten, "")
    /\ UNCHANGED <<current_experiment_dir, clock>>

\* lines 135-160
save_metadata(key, value) ==
    /\ Called
    /\ LET out == IF current_experiment_dir = ""
                  THEN [files |-> files, raised |-> ""]
                  ELSE SaveMetadata(files, current_experiment_dir, key, value)
       IN  /\ files' = out.files
           /\ tlast' = TrackerCall("save_metadata", out.raised, {}, "")
    /\ UNCHANGED <<current_experiment_dir, clock>>

\* lines 162-168: line 168 is not reached when save_metadata raises
finish_experiment ==
    /\ Called
    /\ LET out == IF current_experiment_dir = ""
                  THEN [files |-> files, raised |-> ""]
                  ELSE SaveMetadata(files, current_experiment_dir, "end_time",
                                    PyValue(IsoTime(clock), TRUE))
       IN  /\ files' = out.files
           /\ current_experiment_dir' =
                IF out.raised = "" THEN "" ELSE current_experiment_dir
           /\ tlast' = TrackerCall("finish_experiment", out.raised, {}, "")
    /\ UNCHANGED clock

InitTracker == TInit /\ GIdle /\ FIdle /\ XIdle /\ AIdle /\ RIdle /\ UIdle /\ KIdle /\ CIdle

NextTracker ==
    \/ Tick
    \/ \E d \in { "", "run 1" } : start_experiment(d)
    \/ save_text("save_code", "x=1", "generated_code.py")
    \/ \E f \in { "output.txt", "metadata.json" } : save_text("save_output", "done", f)
    \/ save_codes(<< "x=1", "y=2" >>)
    \/ \E a \in { <<"A", "">>, <<"B", "">>, <<"A", "plot_02.png">> } : save_plot(a[1], a[2])
    \/ save_plots(<< "A", "B" >>)
    \/ \E v \in { PyValue("42", TRUE), PyValue("{1, 2}", FALSE) } : save_metadata("response", v)
    \/ finish_experiment

SpecTracker == InitTracker /\ [][NextTracker]_vars

\* the calls that save an artifact
SaveOps == { "save_code", "save_output", "save_codes", "save_plot", "save_plots",
             "save_metadata" }

\* C28 (as claimed): a save call or finish_experiment made while no experiment
\* is active changes no file and leaves no experiment active; finish_experiment
\* made while an experiment is active puts end_time into the metadata of that
\* experiment and leaves no experiment active.
C28_ArtifactsOnlyWhileActive ==
    /\ (tlast.op \in SaveOps \cup { "finish_experiment" } /\ ~tlast.active) =>
            files = tlast.before /\ current_experiment_dir = ""
    /\ (tlast.op = "finish_experiment" /\ tlast.active) =>
            /\ current_experiment_dir = ""
            /\ files[tlast.dir \o "/metadata.json"].kind = "json"
            /\ "end_time" \in DOMAIN files[tlast.dir \o "/metadata.json"].data

\* the directories of the experiments started so far
DirsIn(fs) ==
    { SubSeq(p, 1, Len(p) - Len("/metadata.json")) :
        p \in { q \in DOMAIN fs : EndsWith(q, "/metadata.json") } }

\* C29 (as claimed): save_plot with an automatic file name, called directly or
\* by save_plots, writes no path that already holds a file; start_experiment
\* returns a directory no earlier experiment has.
C29_NoPlotOverwritten ==
    /\ tlast.op \in { "save_plot", "save_plots" } => tlast.overwritten = {}
    /\ tlast.op = "start_experiment" => tlast.returned \notin DirsIn(tlast.before)

-----------------------------------------------------------------------------
(* cli: main and run_interactive *)

MaxInputs == 2

None == "<None>"

\* Config.__post_init__ (config.py lines 24-27): the key given, else the
\* environment variable
ConfiguredKey(arg, env) == IF arg = None THEN env ELSE arg

\* "not config.api_key"
Falsy(v) == v = None \/ v = ""

\* what input() returns
RawInputs == { "", "   ", "exit", "QUIT", " q ", "help", "HELP", "What is a muon?", "quit now" }

CliEvent(ev, arg) == [ev |-> ev, arg |-> arg]

\* IsExit comparing the input as typed
IsExitCaseSensitive(inp) == inp \in { "exit", "quit", "q" }

\* line 32
IsExit(inp) == Lower(inp) \in { "exit", "quit", "q" }

\* line 36
IsHelp(inp) == Lower(inp) = "help"

CInit ==
    /\ cpc = "start"
    /\ api_key = ""
    /\ user_input = ""
    /\ clog = <<>>
    /\ rc = -1

\* main without --query (lines 135-157) up to the first prompt
Main(arg, env) ==
    /\ cpc = "start"
    /\ api_key' = ConfiguredKey(arg, env)
    /\ IF Falsy(ConfiguredKey(arg, env))
       THEN /\ cpc' = "exited"
            /\ rc' = 1
            /\ clog' = Append(clog, CliEvent("stderr", "Error: Google API key not provided."))
       ELSE /\ cpc' = "prompt"
            /\ rc' = rc
            /\ clog' = Append(clog, CliEvent("create_nima_agent", ""))
    /\ UNCHANGED <<user_input, nonc>>

Reads == Cardinality({ i \in DOMAIN clog : clog[i].ev \in {"input", "input raises"} })

\* lines 27-38: input() returns raw
ReadLine(raw) ==
    /\ cpc = "prompt"
    /\ Reads < MaxInputs
    /\ user_input' = Strip(raw)
    /\ LET inp == Strip(raw)
           read == Append(clog, CliEvent("input", raw))
       IN  IF inp = ""
           THEN cpc' = "prompt" /\ clog' = read /\ rc' = rc
           ELSE IF IsExit(inp)
           THEN cpc' = "ended" /\ clog' = Append(read, CliEvent("print", "Goodbye!")) /\ rc' = 0
           ELSE IF IsHelp(inp)
           THEN cpc' = "prompt" /\ clog' = Append(read, CliEvent("print_help", "")) /\ rc' = rc
           ELSE cpc' = "running" /\ clog' = Append(read, CliEvent("agent.run", inp)) /\ rc' = rc
    /\ UNCHANGED <<api_key, nonc>>

\* lines 45-52: input() raises
ReadRaises(exc) ==
    /\ cpc = "prompt"
    /\ Reads < MaxInputs
    /\ LET read == Append(clog, CliEvent("input raises", exc))
       IN  IF exc = "KeyboardInterrupt"
           THEN cpc' = "ended" /\ clog' = Append(read, CliEvent("print", "Goodbye!")) /\ rc' = 0
           ELSE cpc' = "prompt" /\ clog' = Append(read, CliEvent("print", "Error: " \o exc))
                /\ rc' = rc
    /\ UNCHANGED <<api_key, user_input, nonc>>

\* lines 42-52: agent.run returns or raises
AgentEnds(how) ==
    /\ cpc = "running"
    /\ LET ended == Append(clog, CliEvent("agent.run ends", how))
       IN  IF how = "return"
           THEN cpc' = "prompt" /\ clog' = Append(ended, CliEvent("print", "result")) /\ rc' = rc
           ELSE IF how = "KeyboardInterrupt"
           THEN cpc' = "ended" /\ clog' = Append(ended, CliEvent("print", "Goodbye!")) /\ rc' = 0
           ELSE cpc' = "prompt" /\ clog' = Append(ended, CliEvent("print", "Error: " \o how))
                /\ rc' = rc
    /\ UNCHANGED <<api_key, user_input, nonc>>

InitCli == CInit /\ GIdle /\ FIdle /\ XIdle /\ AIdle /\ RIdle /\ UIdle /\ KIdle /\ TIdle

NextCli ==
    \/ \E arg \in { None, "", "KEY" } : \E env \in { None, "ENVKEY" } : Main(arg, env)
    \/ \E raw \in RawInputs : ReadLine(raw)
    \/ \E exc \in { "EOFError", "KeyboardInterrupt" } : ReadRaises(exc)
    \/ \E how \in { "return", "RuntimeError: boom", "KeyboardInterrupt" } : AgentEnds(how)

SpecCli == InitCli /\ [][NextCli]_vars

\* the inputs of RawInputs by what the user meant, written out
ExitInputs == { "exit", "QUIT", " q " }
BlankInputs == { "", "   " }
HelpInputs == { "help", "HELP" }

Interrupted(e) ==
    e \in { CliEvent("input raises", "KeyboardInterrupt"),
            CliEvent("agent.run ends", "KeyboardInterrupt") }

\* C30: the session has ended exactly when the last thing read was exit, quit
\* or q in any letter case, or a keyboard interrupt came; a blank input and
\* "help" are not followed by a run of the agent, "help" prints the examples;
\* an error of input() or of the agent is printed and the next prompt comes;
\* without API key main returns 1 and creates no agent.
C30_SessionEndsOnExitOnly ==
    /\ \A i \in DOMAIN clog :
        /\ (clog[i].ev = "input" /\ clog[i].arg \in ExitInputs) \/ Interrupted(clog[i])
            => /\ i + 1 = Len(clog)
               /\ clog[i + 1] = CliEvent("print", "Goodbye!")
               /\ cpc = "ended"
        /\ (clog[i].ev = "input" /\ clog[i].arg \in BlankInputs /\ i < Len(clog))
            => clog[i + 1].ev \in { "input", "input raises" }
        /\ (clog[i].ev = "input" /\ clog[i].arg \in HelpInputs)
            => i < Len(clog) /\ clog[i + 1].ev = "print_help"
        /\ clog[i].ev = "print_help"
            => i = Len(clog) \/ clog[i + 1].ev \in { "input", "input raises" }
        /\ clog[i] \in { CliEvent("input raises", "EOFError"),
                         CliEvent("agent.run ends", "RuntimeError: boom") }
            => /\ i < Len(clog)
               /\ clog[i + 1] = CliEvent("print", "Error: " \o clog[i].arg)
               /\ (i + 1 = Len(clog) => cpc = "prompt")
    /\ cpc = "ended" =>
        /\ Len(clog) >= 2
        /\ \/ clog[Len(clog) - 1].ev = "input" /\ clog[Len(clog) - 1].arg \in ExitInputs
           \/ Interrupted(clog[Len(clog) - 1])
    /\ cpc = "exited" =>
        /\ rc = 1
        /\ api_key \in { None, "" }
        /\ \A i \in DOMAIN clog : clog[i].ev # "create_nima_agent"
    /\ (cpc \notin { "start", "exited" }) =>
        /\ api_key \notin { None, "" }
        /\ clog[1].ev = "create_nima_agent"

C30_Witness ==
    /\ cpc = "ended"
    /\ Len(clog) = 5
    /\ clog[2] = CliEvent("input", "HELP")
    /\ clog[3].ev = "print_help"
    /\ clog[4] = CliEvent("input", "QUIT")
    /\ clog[5] = CliEvent("print", "Goodbye!")

====
